---- MODULE Spec2Model ----
(***************************************************************************)
(* WilcoCrypt (src/src/wilcocrypt.js): password-based file encryption.     *)
(*                                                                         *)
(* encryptFile(filePath, password) reads a file, derives a key with        *)
(* scrypt, encrypts with AES-256-GCM and writes `${filePath}.enc` as       *)
(* gzip(msgpack(envelope)).  decryptFile(filePath, password) reverses it.  *)
(*                                                                         *)
(* Both functions are synchronous; the model follows one call at a time    *)
(* through its statements (pc), with the file system as the only state     *)
(* that outlives a call.                                                   *)
(*                                                                         *)
(* Representation.  A byte is 0..255.  A JavaScript string is the sequence *)
(* of its character codes, so that hex encoding, hex decoding and a bit    *)
(* flip in a stored field are computed, not assumed.  An optional envelope *)
(* field is [has, s]: has = FALSE is JavaScript's undefined.               *)
(*                                                                         *)
(* Library primitives.  scrypt and the GCM tag are modelled by concrete    *)
(* functions that are collision-free on the inputs the model reaches (the  *)
(* standard assumption on a KDF and a MAC); the GCM cipher is a keystream  *)
(* XOR, as in counter mode.  gzip and MessagePack are modelled as lossless *)
(* containers that reject what they did not produce.                       *)
(***************************************************************************)
EXTENDS Integers, Sequences, FiniteSets, Bags, TLC

(* ------------------------------ bounds -------------------------------- *)

\* longest plaintext, in bytes
MaxPlainLen == 1
\* number of distinct values randomBytes(16) can return for the salt
NumSalts == 2
\* number of distinct values randomBytes(12) can return for the iv
NumIvs == 2

(* ------------------------- program constants -------------------------- *)

\* wilcocrypt._.MIN_PASSWORD_LENGTH
MIN_PASSWORD_LENGTH == 6
\* scryptSync(password, salt, 32) and assertKeyAndIv: key.length !== 32
KEY_LENGTH == 32
\* randomBytes(12) and assertKeyAndIv: iv.length !== 12
IV_LENGTH == 12
\* randomBytes(16)
SALT_LENGTH == 16
\* length of cipher.getAuthTag() for aes-256-gcm
TAG_LENGTH == 16

(* ------------------------------ strings ------------------------------- *)

\* "2.0.0"
VERSION == <<50, 46, 48, 46, 48>>

\* what a template literal prints for undefined: "undefined"
UndefinedText == <<117, 110, 100, 101, 102, 105, 110, 101, 100>>

\* an optional string: JavaScript's undefined, or a string
Undefined == [has |-> FALSE, s |-> <<>>]
Str(s) == [has |-> TRUE, s |-> s]

\* !x for an optional string: undefined and '' are falsy
Falsy(x) == ~x.has \/ x.s = <<>>

\* `${x}` for an optional string
TemplateText(x) == IF x.has THEN x.s ELSE UndefinedText

(* -------------------------------- hex --------------------------------- *)

\* one hex digit of Buffer.toString('hex'): lower case
HexDigit(n) == IF n < 10 THEN 48 + n ELSE 87 + n

\* buf.toString('hex')
toHex(bytes) ==
  [i \in 1..(2 * Len(bytes)) |->
     IF i % 2 = 1 THEN HexDigit(bytes[(i + 1) \div 2] \div 16)
                  ELSE HexDigit(bytes[i \div 2] % 16)]

\* the value of a hex character, -1 when it is none; both cases are accepted
HexVal(c) ==
  IF c >= 48 /\ c <= 57 THEN c - 48
  ELSE IF c >= 97 /\ c <= 102 THEN c - 87
  ELSE IF c >= 65 /\ c <= 70 THEN c - 55
  ELSE -1

\* number of leading character pairs of s that are both hex digits
HexPairs(s) ==
  LET ok == {k \in 0..(Len(s) \div 2) :
               \A j \in 1..k : HexVal(s[2 * j - 1]) >= 0 /\ HexVal(s[2 * j]) >= 0}
  IN CHOOSE k \in ok : \A m \in ok : m <= k

\* Buffer.from(s, 'hex'): decoding stops at the first pair that is not hex,
\* and a trailing single character is dropped
fromHex(s) ==
  [i \in 1..HexPairs(s) |-> 16 * HexVal(s[2 * i - 1]) + HexVal(s[2 * i])]

(* ------------------------------- crypto ------------------------------- *)

\* a ^ b on bytes
RECURSIVE BitXor(_, _)
BitXor(a, b) ==
  IF a = 0 THEN b
  ELSE IF b = 0 THEN a
  ELSE 2 * BitXor(a \div 2, b \div 2) + ((a + b) % 2)

\* a prime below 2^23, so that acc * m stays below 2^31
HashPrime == 8388608 - 15

\* the weight of position i in the hash with multiplier m: never 0 modulo
\* HashPrime, so that a change of one byte always changes the hash
HashWeight(i, m) == (m * i * i + 7919 * i + 1) % HashPrime

\* a hash of a byte sequence: the weighted sum of its bytes modulo HashPrime
\* (BagCardinality sums the values of a function)
Hash(s, m) ==
  (BagCardinality([i \in 1..Len(s) |->
                     (((s[i] + 1) * HashWeight(i, m)) % HashPrime) + 1]) + m)
    % HashPrime

\* s padded with zero bytes to length n
PadTo(s, n) == [i \in 1..n |-> IF i <= Len(s) THEN s[i] ELSE 0]

\* scryptSync(password, salt, 32): a 32-byte key, a deterministic function of
\* (password, salt) that is injective for passwords of up to 12 characters
\* and salts of up to 18 bytes
scryptSync(password, salt) ==
  <<Len(password)>> \o PadTo(password, 12) \o <<Len(salt)>> \o PadTo(salt, 18)

\* the i-th keystream byte of AES-256-GCM under (key, iv)
GcmKeystream(key, iv, i) == (Hash(key \o iv, 139) + 31 * i) % 256

\* the GCM cipher proper: XOR with the keystream, its own inverse
GcmCrypt(data, key, iv) ==
  [i \in 1..Len(data) |-> BitXor(data[i], GcmKeystream(key, iv, i))]

\* the 16-byte GCM authentication tag of ciphertext under (key, iv)
GcmTag(ciphertext, key, iv) ==
  LET msg == key \o iv \o <<Len(ciphertext)>> \o ciphertext
      h1 == Hash(msg, 131)
      h2 == Hash(msg, 137)
  IN [i \in 1..TAG_LENGTH |->
        CASE i = 1 -> h1 \div 65536
          [] i = 2 -> (h1 \div 256) % 256
          [] i = 3 -> h1 % 256
          [] i = 4 -> h2 \div 65536
          [] i = 5 -> (h2 \div 256) % 256
          [] i = 6 -> h2 % 256
          [] OTHER -> (h1 + i * h2) % 256]

\* tag lengths decipher.setAuthTag accepts for GCM (NIST SP 800-38D)
ValidGcmTagLengths == {4, 8, 12, 13, 14, 15, 16}

(* ------------------------------- errors ------------------------------- *)

NoError == [name |-> "", code |-> "", text |-> "", arg |-> <<>>]

\* new WilcoCryptError(message, code); arg is the interpolated part of message
WilcoCryptError(text, arg, code) ==
  [name |-> "WilcoCryptError", code |-> code, text |-> text, arg |-> arg]

\* errors of the collaborators, which are not WilcoCryptErrors
ENOENT == [name |-> "Error", code |-> "ENOENT",
           text |-> "no such file or directory", arg |-> <<>>]
ZlibError == [name |-> "Error", code |-> "Z_DATA_ERROR",
              text |-> "incorrect header check", arg |-> <<>>]
MsgpackError == [name |-> "RangeError", code |-> "",
                 text |-> "Insufficient data", arg |-> <<>>]
NullTypeError == [name |-> "TypeError", code |-> "",
                  text |-> "Cannot read properties of null", arg |-> <<>>]

Ok(value) == [ok |-> TRUE, value |-> value, error |-> NoError]
Err(error) == [ok |-> FALSE, value |-> <<>>, error |-> error]

(* ------------------------------ helpers -------------------------------- *)

\* assertKeyAndIv(key, iv): the error it throws, NoError when it returns
assertKeyAndIv(key, iv) ==
  IF Len(key) # KEY_LENGTH
  THEN WilcoCryptError("Invalid encryption key (expected 32-byte Buffer)", <<>>,
                       "INVALID_KEY")
  ELSE IF Len(iv) # IV_LENGTH
  THEN WilcoCryptError("Invalid IV (expected 12-byte Buffer for GCM)", <<>>,
                       "INVALID_IV")
  ELSE NoError

\* assertPassword without its typeof test: any value with a length passes
assertPasswordLengthOnly(password) ==
  IF Len(password.chars) < MIN_PASSWORD_LENGTH
  THEN WilcoCryptError("Password must be at least ${MIN_PASSWORD_LENGTH} characters",
                       <<48 + MIN_PASSWORD_LENGTH>>, "WEAK_PASSWORD")
  ELSE NoError

\* assertPassword(password): the error it throws, NoError when it returns
assertPassword(password) ==
  IF password.type # "string" \/ Len(password.chars) < MIN_PASSWORD_LENGTH
  THEN WilcoCryptError("Password must be at least ${MIN_PASSWORD_LENGTH} characters",
                       <<48 + MIN_PASSWORD_LENGTH>>, "WEAK_PASSWORD")
  ELSE NoError

(* ---------------------------- crypto layer ----------------------------- *)

\* encryptData(plainData, key, iv), called with a valid key and iv
encryptData(plainData, key, iv) ==
  LET encrypted == GcmCrypt(plainData, key, iv)
  IN [ciphertext |-> encrypted, authTag |-> GcmTag(encrypted, key, iv)]

\* the try block of decryptData: setAuthTag, update, final
Decipher(cipherHex, authTagHex, key, iv) ==
  LET tag == fromHex(authTagHex)
      ciphertext == fromHex(cipherHex)
  IN IF Len(tag) \notin ValidGcmTagLengths
     THEN Err(NoError)                     \* setAuthTag throws
     ELSE IF tag # SubSeq(GcmTag(ciphertext, key, iv), 1, Len(tag))
     THEN Err(NoError)                     \* final throws
     ELSE Ok(GcmCrypt(ciphertext, key, iv))

DecryptionFailed ==
  WilcoCryptError("Decryption failed (invalid password, corrupted data, or tampered file)",
                  <<>>, "DECRYPTION_FAILED")

\* decryptData(cipherHex, authTagHex, key, iv)
decryptData(cipherHex, authTagHex, key, iv) ==
  IF assertKeyAndIv(key, iv) # NoError
  THEN Err(assertKeyAndIv(key, iv))
  ELSE IF Decipher(cipherHex, authTagHex, key, iv).ok
  THEN Decipher(cipherHex, authTagHex, key, iv)
  ELSE Err(DecryptionFailed)

(* ---------------------------- packing layer ---------------------------- *)

NoEnvelope ==
  [payload |-> Undefined, authTag |-> Undefined, salt |-> Undefined,
   iv |-> Undefined, version |-> Undefined]

\* file contents: no file, raw bytes, or a gzip stream holding `inner`
NoFile == [kind |-> "none", bytes |-> <<>>, inner |-> "", env |-> NoEnvelope]
RawFile(bytes) == [kind |-> "raw", bytes |-> bytes, inner |-> "", env |-> NoEnvelope]

\* msgpack_encode(data) for an envelope object
msgpack_encode(envelope) == [inner |-> "map", env |-> envelope]

\* gzipSync(packed, { level: 9 })
gzipSync(packed) ==
  [kind |-> "gzip", bytes |-> <<>>, inner |-> packed.inner, env |-> packed.env]

\* gunzipSync(file): throws on anything that is not a gzip stream
gunzipSync(file) ==
  IF file.kind = "gzip" THEN Ok([inner |-> file.inner, env |-> file.env])
  ELSE Err(ZlibError)

\* msgpack_decode(decompressed): a map, null or a number; throws on bytes that
\* are not MessagePack
msgpack_decode(packed) ==
  IF packed.inner \in {"map", "nil", "int"} THEN Ok(packed) ELSE Err(MsgpackError)

\* unpackFromFile(filePath) on the file system fsys
unpackFromFile(fsys, filePath) ==
  IF fsys[filePath].kind = "none" THEN Err(ENOENT)
  ELSE IF ~gunzipSync(fsys[filePath]).ok THEN gunzipSync(fsys[filePath])
  ELSE msgpack_decode(gunzipSync(fsys[filePath]).value)

(* ------------------------------- inputs ------------------------------- *)

\* a JavaScript value passed as password: a string, or an array of
\* one-character strings (typeof 'object', with a length of its own)
StringValue(chars) == [type |-> "string", chars |-> chars]
ArrayValue(chars) == [type |-> "object", chars |-> chars]

\* "secret", "hunter22": they meet the policy
StrongPasswords ==
  {StringValue(<<115, 101, 99, 114, 101, 116>>),
   StringValue(<<104, 117, 110, 116, 101, 114, 50, 50>>)}

\* "abc", "abcde": shorter than MIN_PASSWORD_LENGTH
ShortPasswords ==
  {StringValue(<<97, 98, 99>>), StringValue(<<97, 98, 99, 100, 101>>)}

\* ['s','e','c','r','e','t','s']: long enough, not a string
NonStringPasswords == {ArrayValue(<<115, 101, 99, 114, 101, 116, 115>>)}

Passwords == StrongPasswords \cup ShortPasswords \cup NonStringPasswords

\* the plaintexts: every byte sequence over PlainBytes of up to MaxPlainLen bytes
PlainBytes == {104, 171}
Plaintexts == UNION {[1..n -> PlainBytes] : n \in 0..MaxPlainLen}

\* the values the secure random source can return
SaltPool == {[i \in 1..SALT_LENGTH |-> (101 * k + 37 * i + 11) % 256] : k \in 1..NumSalts}
IvPool == {[i \in 1..IV_LENGTH |-> (97 * k + 29 * i + 10) % 256] : k \in 1..NumIvs}

\* paths: a path is the tuple of its parts, `${filePath}.enc` appends ".enc"
DocPath == <<"doc">>
GonePath == <<"gone">>
EncPath(filePath) == Append(filePath, ".enc")
Paths == {DocPath, GonePath, EncPath(DocPath), EncPath(GonePath)}

(* -------------------------------- state -------------------------------- *)

VARIABLES
  fs,        \* the file system: path -> file contents
  origin,    \* history: per path, who wrote the file and from what
  pc,        \* the statement the call in progress is at, "idle" between calls
  call,      \* the call in progress or last finished: op, filePath, password
  local,     \* the local variables of that call
  result,    \* how that call ended: pending, returned (value) or thrown (error)
  fsAtCall   \* history: the file system when that call started

vars == <<fs, origin, pc, call, local, result, fsAtCall>>

NoOrigin ==
  [by |-> "nobody", password |-> <<>>, plain |-> <<>>, tampered |-> ""]

NoLocals ==
  [fileData |-> <<>>, iv |-> <<>>, salt |-> <<>>, key |-> <<>>,
   ciphertext |-> <<>>, authTag |-> <<>>, envelope |-> NoEnvelope,
   decoded |-> "", packed |-> [inner |-> "", env |-> NoEnvelope],
   compressed |-> NoFile, drawn |-> <<>>,
   stage |-> "Start", reads |-> 0, writes |-> 0,
   scryptCalls |-> 0, decipherCalls |-> 0]

Pending == [status |-> "pending", value |-> <<>>, error |-> NoError]
Returned(value) == [status |-> "returned", value |-> value, error |-> NoError]
Thrown(error) == [status |-> "thrown", value |-> <<>>, error |-> error]

NoCall == [op |-> "none", filePath |-> DocPath, password |-> StringValue(<<>>)]

Init ==
  /\ \E p \in Plaintexts :
       fs = [q \in Paths |-> IF q = DocPath THEN RawFile(p) ELSE NoFile]
  /\ origin = [q \in Paths |-> NoOrigin]
  /\ pc = "idle"
  /\ call = NoCall
  /\ local = NoLocals
  /\ result = Pending
  /\ fsAtCall = fs

\* a call begins: its arguments are bound, its locals are fresh
Begin(op, filePath, password, first) ==
  /\ pc' = first
  /\ call' = [op |-> op, filePath |-> filePath, password |-> password]
  /\ local' = NoLocals
  /\ result' = Pending
  /\ fsAtCall' = fs
  /\ UNCHANGED <<fs, origin>>

\* the call in progress throws: it ends there, with its locals as given
ThrowWith(error, locals) ==
  /\ pc' = "idle"
  /\ result' = Thrown(error)
  /\ local' = [locals EXCEPT !.stage = "Failed"]
  /\ UNCHANGED <<fs, origin, call, fsAtCall>>

Throw(error) == ThrowWith(error, local)

\* the call in progress moves on to the next statement
Goto(next, locals) ==
  /\ pc' = next
  /\ local' = locals
  /\ UNCHANGED <<fs, origin, call, result, fsAtCall>>

(* ----------------------------- encryptFile ----------------------------- *)

\* wilcocrypt.encryptFile(filePath, password) is called
CallEncryptFile(filePath, password) ==
  /\ pc = "idle"
  /\ Begin("encryptFile", filePath, password, "enc_assertPassword")

\* wilcocrypt._.assertPassword(password);
EncAssertPassword ==
  /\ pc = "enc_assertPassword"
  /\ IF assertPassword(call.password) # NoError
     THEN Throw(assertPassword(call.password))
     ELSE Goto("enc_readFile", local)

\* encryptFile opening its output before it reads its input
EncReadFileOutputFirst ==
  /\ pc = "enc_readFile"
  /\ fs' = [fs EXCEPT ![EncPath(call.filePath)] = RawFile(<<>>)]
  /\ pc' = IF fs[call.filePath].kind = "none" THEN "idle" ELSE "enc_randomBytes"
  /\ result' = IF fs[call.filePath].kind = "none" THEN Thrown(ENOENT) ELSE result
  /\ local' = [local EXCEPT !.fileData = fs[call.filePath].bytes, !.reads = @ + 1,
                            !.writes = @ + 1]
  /\ UNCHANGED <<origin, call, fsAtCall>>

\* const fileData = readFileSync(filePath);
EncReadFile ==
  /\ pc = "enc_readFile"
  /\ IF fs[call.filePath].kind = "none"
     THEN ThrowWith(ENOENT, [local EXCEPT !.reads = @ + 1])
     ELSE Goto("enc_randomBytes",
               [local EXCEPT !.fileData = fs[call.filePath].bytes, !.reads = @ + 1])

\* an encryptFile that draws its nonce and keeps one salt for every call
EncRandomBytesFixedSalt ==
  /\ pc = "enc_randomBytes"
  /\ \E iv \in IvPool :
       Goto("enc_scrypt",
            [local EXCEPT !.iv = iv,
                          !.salt = [i \in 1..SALT_LENGTH |-> (37 * i + 11) % 256],
                          !.drawn = <<iv>>])

\* const iv = randomBytes(12); const salt = randomBytes(16);
\* drawn: the values randomBytes returned during this call, in order
EncRandomBytes ==
  /\ pc = "enc_randomBytes"
  /\ \E iv \in IvPool, salt \in SaltPool :
       Goto("enc_scrypt",
            [local EXCEPT !.iv = iv, !.salt = salt, !.drawn = <<iv, salt>>])

\* const key = scryptSync(password, salt, 32);
EncScrypt ==
  /\ pc = "enc_scrypt"
  /\ Goto("enc_encryptData",
          [local EXCEPT !.key = scryptSync(call.password.chars, local.salt),
                        !.scryptCalls = @ + 1])

\* const { ciphertext, authTag } = wilcocrypt._.encryptData(fileData, key, iv);
EncEncryptData ==
  /\ pc = "enc_encryptData"
  /\ IF assertKeyAndIv(local.key, local.iv) # NoError
     THEN Throw(assertKeyAndIv(local.key, local.iv))
     ELSE Goto("enc_envelope",
               [local EXCEPT
                  !.ciphertext = encryptData(local.fileData, local.key, local.iv).ciphertext,
                  !.authTag = encryptData(local.fileData, local.key, local.iv).authTag])

\* the envelope object literal of encryptFile
MakeEnvelope(ciphertext, authTag, salt, iv) ==
  [payload |-> Str(toHex(ciphertext)),
   authTag |-> Str(toHex(authTag)),
   salt |-> Str(toHex(salt)),
   iv |-> Str(toHex(iv)),
   version |-> Str(VERSION)]

\* const envelope = { payload, authTag, salt, iv, version };
EncEnvelope ==
  /\ pc = "enc_envelope"
  /\ Goto("enc_msgpack",
          [local EXCEPT !.envelope =
             MakeEnvelope(local.ciphertext, local.authTag, local.salt, local.iv)])

\* packToFile: const packed = msgpack_encode(data);
EncMsgpack ==
  /\ pc = "enc_msgpack"
  /\ Goto("enc_gzip", [local EXCEPT !.packed = msgpack_encode(local.envelope)])

\* packToFile: const compressed = gzipSync(packed, { level: 9 });
EncGzip ==
  /\ pc = "enc_gzip"
  /\ Goto("enc_writeFile", [local EXCEPT !.compressed = gzipSync(local.packed)])

\* packToFile: writeFileSync(filePath, compressed); and encryptFile returns
EncWriteFile ==
  /\ pc = "enc_writeFile"
  /\ fs' = [fs EXCEPT ![EncPath(call.filePath)] = local.compressed]
  /\ origin' = [origin EXCEPT ![EncPath(call.filePath)] =
                  [by |-> "encryptFile", password |-> call.password.chars,
                   plain |-> local.fileData, tampered |-> ""]]
  /\ pc' = "idle"
  /\ result' = Returned(<<>>)
  /\ local' = [local EXCEPT !.stage = "Written", !.writes = @ + 1]
  /\ UNCHANGED <<call, fsAtCall>>

(* ----------------------------- decryptFile ----------------------------- *)

\* wilcocrypt.decryptFile(filePath, password) is called
CallDecryptFile(filePath, password) ==
  /\ pc = "idle"
  /\ Begin("decryptFile", filePath, password, "dec_assertPassword")

\* a decryptFile that opens its file before it looks at the password
DecAssertPasswordAfterRead ==
  /\ pc = "dec_assertPassword"
  /\ IF ~unpackFromFile(fs, call.filePath).ok
     THEN ThrowWith(unpackFromFile(fs, call.filePath).error,
                    [local EXCEPT !.reads = @ + 1])
     ELSE IF assertPassword(call.password) # NoError
     THEN ThrowWith(assertPassword(call.password), [local EXCEPT !.reads = @ + 1])
     ELSE Goto("dec_unpackFromFile", local)

\* wilcocrypt._.assertPassword(password);
DecAssertPassword ==
  /\ pc = "dec_assertPassword"
  /\ IF assertPassword(call.password) # NoError
     THEN Throw(assertPassword(call.password))
     ELSE Goto("dec_unpackFromFile", local)

\* const envelope = wilcocrypt._.unpackFromFile(filePath);
\* a decoded number has no properties: every field of it reads undefined
DecUnpackFromFile ==
  /\ pc = "dec_unpackFromFile"
  /\ IF ~unpackFromFile(fs, call.filePath).ok
     THEN ThrowWith(unpackFromFile(fs, call.filePath).error,
                    [local EXCEPT !.reads = @ + 1])
     ELSE Goto("dec_version",
               [local EXCEPT
                  !.reads = @ + 1,
                  !.decoded = unpackFromFile(fs, call.filePath).value.inner,
                  !.envelope = IF unpackFromFile(fs, call.filePath).value.inner = "map"
                               THEN unpackFromFile(fs, call.filePath).value.env
                               ELSE NoEnvelope,
                  !.stage = "Deserialized"])

\* a version gate that compares the major version only
VersionMismatchMajor(envelope) ==
  \/ ~envelope.version.has
  \/ envelope.version.s = <<>>
  \/ Head(envelope.version.s) # Head(VERSION)

\* envelope.version !== wilcocrypt._.VERSION
VersionMismatch(envelope) == envelope.version # Str(VERSION)

UnsupportedVersion(envelope) ==
  WilcoCryptError("Unsupported WilcoCrypt version: ${envelope.version}",
                  TemplateText(envelope.version), "UNSUPPORTED_VERSION")

\* a decryptFile that tests the required fields before the version
DecVersionFieldsFirst ==
  /\ pc = "dec_version"
  /\ IF local.decoded = "nil"
     THEN Throw(NullTypeError)
     ELSE IF Falsy(local.envelope.payload) \/ Falsy(local.envelope.authTag)
               \/ Falsy(local.envelope.salt) \/ Falsy(local.envelope.iv)
     THEN Throw(WilcoCryptError("Corrupted encrypted file (missing required fields)",
                                <<>>, "CORRUPTED_FILE"))
     ELSE IF VersionMismatch(local.envelope)
     THEN Throw(UnsupportedVersion(local.envelope))
     ELSE Goto("dec_fields", [local EXCEPT !.stage = "VersionChecked"])

\* if (envelope.version !== wilcocrypt._.VERSION) throw ...
\* reading a property of null throws a TypeError
DecVersion ==
  /\ pc = "dec_version"
  /\ IF local.decoded = "nil"
     THEN Throw(NullTypeError)
     ELSE IF VersionMismatch(local.envelope)
     THEN Throw(UnsupportedVersion(local.envelope))
     ELSE Goto("dec_fields", [local EXCEPT !.stage = "VersionChecked"])

\* the field check without its last operand, !envelope.iv
MissingFieldsNoIv(envelope) ==
  Falsy(envelope.payload) \/ Falsy(envelope.authTag) \/ Falsy(envelope.salt)

\* !envelope.payload || !envelope.authTag || !envelope.salt || !envelope.iv
MissingFields(envelope) ==
  Falsy(envelope.payload) \/ Falsy(envelope.authTag)
    \/ Falsy(envelope.salt) \/ Falsy(envelope.iv)

CorruptedFile ==
  WilcoCryptError("Corrupted encrypted file (missing required fields)", <<>>,
                  "CORRUPTED_FILE")

\* if (!envelope.payload || ...) throw ...
DecFields ==
  /\ pc = "dec_fields"
  /\ IF MissingFields(local.envelope)
     THEN Throw(CorruptedFile)
     ELSE Goto("dec_scrypt", [local EXCEPT !.stage = "FieldsValidated"])

\* const key = scryptSync(password, Buffer.from(envelope.salt, 'hex'), 32);
DecScrypt ==
  /\ pc = "dec_scrypt"
  /\ Goto("dec_decryptData",
          [local EXCEPT
             !.salt = fromHex(local.envelope.salt.s),
             !.key = scryptSync(call.password.chars, fromHex(local.envelope.salt.s)),
             !.scryptCalls = @ + 1,
             !.stage = "KeyDerived"])

\* a decryptFile that writes the plaintext over the envelope it has read
DecDecryptDataWriteBack ==
  /\ pc = "dec_decryptData"
  /\ LET iv == fromHex(local.envelope.iv.s)
         r == decryptData(local.envelope.payload.s, local.envelope.authTag.s,
                          local.key, iv)
     IN /\ pc' = "idle"
        /\ result' = IF r.ok THEN Returned(r.value) ELSE Thrown(r.error)
        /\ local' = [local EXCEPT
                       !.iv = iv,
                       !.decipherCalls =
                          IF assertKeyAndIv(local.key, iv) = NoError THEN @ + 1 ELSE @,
                       !.writes = IF r.ok THEN @ + 1 ELSE @,
                       !.stage = IF r.ok THEN "Decrypted" ELSE "Failed"]
        /\ fs' = IF r.ok THEN [fs EXCEPT ![call.filePath] = RawFile(r.value)] ELSE fs
        /\ UNCHANGED <<origin, call, fsAtCall>>

\* return wilcocrypt._.decryptData(envelope.payload, envelope.authTag, key,
\*                                  Buffer.from(envelope.iv, 'hex'));
DecDecryptData ==
  /\ pc = "dec_decryptData"
  /\ LET iv == fromHex(local.envelope.iv.s)
         r == decryptData(local.envelope.payload.s, local.envelope.authTag.s,
                          local.key, iv)
         after == [local EXCEPT
                     !.iv = iv,
                     !.decipherCalls =
                        IF assertKeyAndIv(local.key, iv) = NoError THEN @ + 1 ELSE @,
                     !.stage = IF r.ok THEN "Decrypted" ELSE "Failed"]
     IN /\ pc' = "idle"
        /\ result' = IF r.ok THEN Returned(r.value) ELSE Thrown(r.error)
        /\ local' = after
        /\ UNCHANGED <<fs, origin, call, fsAtCall>>

(* ----------------------------- environment ----------------------------- *)

\* the envelope encryptFile would write for (plain, password, salt, iv)
EnvelopeFor(plain, password, salt, iv) ==
  LET key == scryptSync(password, salt)
      encrypted == encryptData(plain, key, iv)
  IN MakeEnvelope(encrypted.ciphertext, encrypted.authTag, salt, iv)

EnvelopeFile(envelope) == gzipSync(msgpack_encode(envelope))

SamplePassword == <<115, 101, 99, 114, 101, 116>>
SampleSalt == [i \in 1..SALT_LENGTH |-> (37 * i + 11) % 256]
SampleIv == [i \in 1..IV_LENGTH |-> (29 * i + 10) % 256]
Sample == EnvelopeFor(<<104>>, SamplePassword, SampleSalt, SampleIv)

\* "1.0.0", "2.0", "2.0.0 " and "undefined": versions other than VERSION
OtherVersions ==
  {<<49, 46, 48, 46, 48>>, <<50, 46, 48>>, <<50, 46, 48, 46, 48, 32>>,
   UndefinedText, <<>>}

FieldNames == {"payload", "authTag", "salt", "iv"}

\* files that did not come from this encryptFile: not gzip, gzip of bytes that
\* are not MessagePack, MessagePack that is no map, and envelopes with fields
\* missing, empty, of another version or of another length
ForeignEnvelopes ==
  {Sample, [Sample EXCEPT !.version = Undefined]}
    \cup {[Sample EXCEPT !.version = Str(v)] : v \in OtherVersions}
    \cup {[Sample EXCEPT ![f] = Undefined] : f \in FieldNames}
    \cup {[Sample EXCEPT ![f] = Str(<<>>)] : f \in FieldNames}
    \cup {[Sample EXCEPT !.version = Str(<<49, 46, 48, 46, 48>>), ![f] = Undefined] :
            f \in FieldNames}
    \cup {EnvelopeFor(<<104>>, SamplePassword, SubSeq(SampleSalt, 1, n), SampleIv) :
            n \in {0, SALT_LENGTH - 1}}
    \cup {EnvelopeFor(<<104>>, SamplePassword, SampleSalt \o <<7>>, SampleIv)}
    \cup {[Sample EXCEPT !.iv = Str(SubSeq(Sample.iv.s, 1, 2 * n))] :
            n \in {IV_LENGTH - 1}}
    \cup {[Sample EXCEPT !.authTag = Str(SubSeq(Sample.authTag.s, 1, 2 * n))] :
            n \in {3, 4, 5}}

ForeignFiles ==
  {RawFile(<<1, 2, 3>>)}
    \cup {[kind |-> "gzip", bytes |-> <<>>, inner |-> i, env |-> NoEnvelope] :
            i \in {"garbage", "nil", "int"}}
    \cup {EnvelopeFile(e) : e \in ForeignEnvelopes}

\* between calls nothing of the last call is left but the file system
Forget ==
  /\ call' = NoCall
  /\ local' = NoLocals
  /\ result' = Pending
  /\ fsAtCall' = fs'
  /\ UNCHANGED pc

\* some other program writes a file at filePath
PlaceFile(filePath, file) ==
  /\ pc = "idle"
  /\ fs' = [fs EXCEPT ![filePath] = file]
  /\ origin' = [origin EXCEPT ![filePath] = [NoOrigin EXCEPT !.by = "foreign"]]
  /\ Forget

\* c with bit k flipped
FlipBit(c, k) == IF (c \div (2 ^ k)) % 2 = 1 THEN c - 2 ^ k ELSE c + 2 ^ k

\* one bit of one character of one stored field of an envelope that
\* encryptFile wrote is flipped, once
TamperBit(filePath, field, i, k) ==
  /\ pc = "idle"
  /\ origin[filePath].by = "encryptFile"
  /\ origin[filePath].tampered = ""
  /\ i \in 1..Len(fs[filePath].env[field].s)
  /\ fs' = [fs EXCEPT ![filePath].env[field].s[i] = FlipBit(@, k)]
  /\ origin' = [origin EXCEPT ![filePath].tampered = field]
  /\ Forget

\* the longest stored field: the 32 hex characters of salt and authTag
MaxFieldLen == 2 * TAG_LENGTH

----
Calls ==
  \/ \E filePath \in {DocPath, GonePath}, password \in Passwords :
       CallEncryptFile(filePath, password)
  \/ \E filePath \in {DocPath, GonePath, EncPath(DocPath)}, password \in Passwords :
       CallDecryptFile(filePath, password)

Steps ==
  \/ EncAssertPassword
  \/ EncReadFile
  \/ EncRandomBytes
  \/ EncScrypt
  \/ EncEncryptData
  \/ EncEnvelope
  \/ EncMsgpack
  \/ EncGzip
  \/ EncWriteFile
  \/ DecAssertPassword
  \/ DecUnpackFromFile
  \/ DecVersion
  \/ DecFields
  \/ DecScrypt
  \/ DecDecryptData

\* calls in any order on files of this program and of others
Next ==
  \/ Calls
  \/ Steps
  \/ \E file \in ForeignFiles : PlaceFile(EncPath(DocPath), file)

Spec == Init /\ [][Next]_vars

\* the tamper scenario: the document is encrypted once, one bit of the
\* envelope may be flipped, and the envelope is decrypted with the password
\* it was encrypted with
NextTamper ==
  \/ \E password \in StrongPasswords :
       /\ origin[EncPath(DocPath)].by = "nobody"
       /\ CallEncryptFile(DocPath, password)
  \/ \E password \in StrongPasswords :
       /\ origin[EncPath(DocPath)].by = "encryptFile"
       /\ origin[EncPath(DocPath)].password = password.chars
       /\ CallDecryptFile(EncPath(DocPath), password)
  \/ Steps
  \/ \E field \in FieldNames, i \in 1..MaxFieldLen, k \in 0..7 :
       TamperBit(EncPath(DocPath), field, i, k)

SpecTamper == Init /\ [][NextTamper]_vars

(* ------------------------------ properties ----------------------------- *)

\* the last call was `op` and has ended
Finished(op) == pc = "idle" /\ call.op = op /\ result.status # "pending"

\* the strength policy: a string of at least MIN_PASSWORD_LENGTH characters
MeetsPolicy(password) ==
  password.type = "string" /\ Len(password.chars) >= MIN_PASSWORD_LENGTH

\* the file the call names, and what is known of where it came from
CalledFile == fs[call.filePath]
CalledOrigin == origin[call.filePath]

\* the file the call names holds an envelope (a MessagePack map in gzip)
HoldsEnvelope == CalledFile.kind = "gzip" /\ CalledFile.inner = "map"

\* the file the call names is an envelope encryptFile wrote, untouched since
FromEncryptFile == CalledOrigin.by = "encryptFile" /\ CalledOrigin.tampered = ""

\* the call's password is the one its file was encrypted with
SamePassword ==
  call.password.type = "string" /\ call.password.chars = CalledOrigin.password

ThrewCode(code) == result.status = "thrown" /\ result.error.code = code

\* C1: round trip. After encryptFile(path, pw) on a file holding p, for any p
\* (the empty sequence included) and any pw that meets the policy,
\* decryptFile(path + '.enc', pw) returns exactly p.
C1_RoundTrip ==
  (Finished("decryptFile") /\ FromEncryptFile /\ SamePassword)
    => (result.status = "returned" /\ result.value = CalledOrigin.plain)

\* the round trip of every plaintext that is not empty
RoundTripNonEmpty ==
  (Finished("decryptFile") /\ FromEncryptFile /\ SamePassword
     /\ CalledOrigin.plain # <<>>)
    => (result.status = "returned" /\ result.value = CalledOrigin.plain)

\* C2: wrong password fails closed. decryptFile of an envelope encryptFile
\* wrote with pw1, called with a password pw2 # pw1 (one that decryptFile's
\* own password check lets through), raises DECRYPTION_FAILED and returns no
\* plaintext.
C2_WrongPasswordFailsClosed ==
  (Finished("decryptFile") /\ FromEncryptFile /\ MeetsPolicy(call.password)
     /\ ~SamePassword)
    => ThrewCode("DECRYPTION_FAILED")

\* with any other password, whatever it is, decryptFile returns nothing
WrongPasswordReturnsNothing ==
  (Finished("decryptFile") /\ FromEncryptFile /\ ~SamePassword)
    => result.status = "thrown"

\* C3: tamper detection. After one bit of the stored payload, authTag, iv or
\* salt of a valid envelope is flipped, decryptFile with the correct password
\* fails with DECRYPTION_FAILED or CORRUPTED_FILE: it returns no plaintext and
\* fails with no other error.
C3_TamperDetected ==
  (Finished("decryptFile") /\ CalledOrigin.by = "encryptFile"
     /\ CalledOrigin.tampered # "" /\ SamePassword)
    => (ThrewCode("DECRYPTION_FAILED") \/ ThrewCode("CORRUPTED_FILE"))

\* after such a flip decryptFile never returns anything but the plaintext
TamperNeverAltersPlaintext ==
  (Finished("decryptFile") /\ CalledOrigin.by = "encryptFile"
     /\ CalledOrigin.tampered # "" /\ result.status = "returned")
    => result.value = CalledOrigin.plain

\* C4: missing version. decryptFile (with a password that passes its check) on
\* an envelope that has no version field fails with an error that is not the
\* UNSUPPORTED_VERSION error of a version that is present and does not match.
C4_MissingVersionDistinct ==
  (Finished("decryptFile") /\ MeetsPolicy(call.password) /\ HoldsEnvelope
     /\ ~CalledFile.env.version.has)
    => (result.status = "thrown" /\ result.error.code # "UNSUPPORTED_VERSION")

\* the file the call names holds an envelope of a version other than VERSION
OtherVersion ==
  HoldsEnvelope /\ CalledFile.env.version.has /\ CalledFile.env.version.s # VERSION

\* decryptFile stopped at the version gate: UNSUPPORTED_VERSION with the
\* stored version in its message, no key derived, nothing deciphered
StoppedAtVersionGate ==
  /\ local.scryptCalls = 0
  /\ local.decipherCalls = 0
  /\ Finished("decryptFile") =>
       /\ ThrewCode("UNSUPPORTED_VERSION")
       /\ result.error.arg = CalledFile.env.version.s

\* C5 as stated: decryptFile on an envelope whose version is any string other
\* than VERSION fails with UNSUPPORTED_VERSION carrying that string, and
\* derives no key and deciphers nothing.
C5_ExactVersionGate_AsStated ==
  (call.op = "decryptFile" /\ OtherVersion) => StoppedAtVersionGate

\* C5 amended: the same, for a call whose password meets the policy (the
\* password is checked before the file is read).
C5_ExactVersionGate ==
  (call.op = "decryptFile" /\ MeetsPolicy(call.password) /\ OtherVersion)
    => StoppedAtVersionGate

\* decryptFile, given a strong password, has thrown at the version gate on
\* an envelope of another version
C5_Witness ==
  /\ Finished("decryptFile") /\ MeetsPolicy(call.password) /\ OtherVersion
  /\ ThrewCode("UNSUPPORTED_VERSION")
  /\ local.reads = 1

\* the file the call names cannot be decompressed or deserialized to a record
Malformed ==
  \/ CalledFile.kind = "raw"
  \/ CalledFile.kind = "gzip" /\ CalledFile.inner # "map"

\* C6: malformed container. decryptFile (with a password that passes its
\* check) on a file that cannot be decompressed or deserialized into a record
\* fails with CORRUPTED_FILE and with no other error.
C6_MalformedIsCorruptedFile ==
  (Finished("decryptFile") /\ MeetsPolicy(call.password) /\ Malformed)
    => ThrewCode("CORRUPTED_FILE")

\* the file the call names holds an envelope of the supported version in
\* which one of payload, authTag, salt, iv is absent
FieldAbsent ==
  /\ HoldsEnvelope
  /\ CalledFile.env.version = Str(VERSION)
  /\ \E f \in FieldNames : ~CalledFile.env[f].has

\* decryptFile stopped at the field check: CORRUPTED_FILE, no key derived,
\* nothing deciphered
StoppedAtFieldCheck ==
  /\ local.scryptCalls = 0
  /\ local.decipherCalls = 0
  /\ Finished("decryptFile") => ThrewCode("CORRUPTED_FILE")

\* C7 as stated: decryptFile on an envelope of the supported version with one
\* of payload, authTag, salt, iv absent fails with CORRUPTED_FILE, before any
\* key derivation or decryption.
C7_MissingFields_AsStated ==
  (call.op = "decryptFile" /\ FieldAbsent) => StoppedAtFieldCheck

\* C7 amended: the same, for a call whose password meets the policy.
C7_MissingFields ==
  (call.op = "decryptFile" /\ MeetsPolicy(call.password) /\ FieldAbsent)
    => StoppedAtFieldCheck

\* decryptFile, given a strong password, has thrown CORRUPTED_FILE on an
\* envelope of the supported version that lacks its iv
C7_Witness ==
  /\ Finished("decryptFile") /\ MeetsPolicy(call.password) /\ FieldAbsent
  /\ ~CalledFile.env.iv.has
  /\ ThrewCode("CORRUPTED_FILE")

\* C8: weak password rejection on encrypt. For a password shorter than
\* MIN_PASSWORD_LENGTH, or one that is no string, encryptFile throws
\* WEAK_PASSWORD at its first statement: it reads no file, writes no file and
\* leaves the file system as it was.
C8_WeakPasswordRejected ==
  (call.op = "encryptFile" /\ ~MeetsPolicy(call.password))
    => /\ pc \in {"enc_assertPassword", "idle"}
       /\ local.reads = 0
       /\ local.writes = 0
       /\ fs = fsAtCall
       /\ pc = "idle" => ThrewCode("WEAK_PASSWORD")

\* encryptFile has rejected a password that is too short, on a document that
\* exists, and no .enc file exists
C8_Witness ==
  /\ Finished("encryptFile")
  /\ call.password.type = "string"
  /\ Len(call.password.chars) < MIN_PASSWORD_LENGTH
  /\ ThrewCode("WEAK_PASSWORD")
  /\ fs[call.filePath].kind = "raw"
  /\ fs[EncPath(call.filePath)].kind = "none"

\* every step of encryptFile before the write has succeeded, for the call
\* in progress: password, input, key, ciphertext and tag, envelope, encoding
\* and compression
ReadyToWrite ==
  /\ MeetsPolicy(call.password)
  /\ local.reads = 1
  /\ local.fileData = fsAtCall[call.filePath].bytes
  /\ local.scryptCalls = 1
  /\ Len(local.key) = KEY_LENGTH
  /\ Len(local.ciphertext) = Len(local.fileData)
  /\ Len(local.authTag) = TAG_LENGTH
  /\ local.envelope.payload = Str(toHex(local.ciphertext))
  /\ local.envelope.version = Str(VERSION)
  /\ local.packed = [inner |-> "map", env |-> local.envelope]
  /\ local.compressed.kind = "gzip"
  /\ local.compressed.env = local.envelope

\* C9: no partial results on encrypt. During an encryptFile call the file
\* system changes only in the last step, the write of '<path>.enc', taken
\* after every earlier step has succeeded, and the call returns with it; a
\* call that throws leaves the file system as it was when the call began.
C9_WriteIsLast ==
  [][(call.op = "encryptFile" /\ pc # "idle") =>
       /\ fs' # fs =>
            /\ ReadyToWrite
            /\ pc' = "idle"
            /\ result'.status = "returned"
            /\ fs' = [fs EXCEPT ![EncPath(call.filePath)] = local.compressed]
       /\ result'.status = "thrown" => fs' = fsAtCall]_vars

\* encryptFile has returned and '<path>.enc' holds a new envelope
C9_Witness ==
  /\ Finished("encryptFile")
  /\ result.status = "returned"
  /\ local.writes = 1
  /\ fs[EncPath(call.filePath)] # fsAtCall[EncPath(call.filePath)]
  /\ fs[EncPath(call.filePath)].kind = "gzip"

\* C10: no wrong-password oracle. Every failure of the authenticated
\* decryption step of decryptFile (the call to decryptData, reached once the
\* key is derived) is the one DECRYPTION_FAILED error, with the same code and
\* message whether the password was wrong or the data altered.
C10_OneOpaqueError ==
  (Finished("decryptFile") /\ local.scryptCalls = 1 /\ result.status = "thrown")
    => result.error = DecryptionFailed

\* C11: envelope immutability. No decryptFile call, successful or failed,
\* writes a file: from its first statement to its end the file system is the
\* one the call started with, the envelope it reads included. And a file
\* encryptFile wrote carries the version VERSION for as long as it is the
\* file encryptFile wrote.
C11_EnvelopeImmutable ==
  /\ call.op = "decryptFile" => (fs = fsAtCall /\ local.writes = 0)
  /\ \A q \in Paths :
       origin[q].by = "encryptFile" =>
         (fs[q].kind = "gzip" /\ fs[q].env.version = Str(VERSION))

\* decryptFile has returned the plaintext of an envelope encryptFile wrote,
\* and the envelope file is as it was
C11_Witness ==
  /\ Finished("decryptFile")
  /\ result.status = "returned"
  /\ FromEncryptFile
  /\ local.reads = 1
  /\ CalledFile = fsAtCall[call.filePath]
  /\ CalledFile.env.version = Str(VERSION)

\* the stage that follows a stage of decryptFile when its step succeeds
NextStage(stage) ==
  CASE stage = "Start" -> "Deserialized"
    [] stage = "Deserialized" -> "VersionChecked"
    [] stage = "VersionChecked" -> "FieldsValidated"
    [] stage = "FieldsValidated" -> "KeyDerived"
    [] stage = "KeyDerived" -> "Decrypted"
    [] OTHER -> "none"

\* the error codes with which decryptFile can fail when it leaves a stage
\* (errors of the collaborators have the code of their kind, or none)
FailuresAt(stage) ==
  CASE stage = "Start" -> {"WEAK_PASSWORD", "ENOENT", "Z_DATA_ERROR", ""}
    [] stage = "Deserialized" -> {"UNSUPPORTED_VERSION", ""}
    [] stage = "VersionChecked" -> {"CORRUPTED_FILE"}
    [] stage = "KeyDerived" -> {"DECRYPTION_FAILED", "INVALID_IV"}
    [] OTHER -> {}

\* one step of a decryptFile call in progress obeys the order of the stages
StageStep ==
  /\ \/ local'.stage = NextStage(local.stage)
     \/ local'.stage = "Failed"
     \/ pc = "dec_assertPassword" /\ local.stage = "Start" /\ local'.stage = "Start"
  /\ (pc' = "idle") = (local'.stage \in {"Decrypted", "Failed"})
  /\ (local'.stage = "Failed") = (result'.status = "thrown")
  /\ (local'.stage = "Decrypted") = (result'.status = "returned")
  /\ local'.stage = "Failed" => result'.error.code \in FailuresAt(local.stage)
  /\ (local.stage = "Deserialized" /\ local.decoded = "map"
        /\ local.envelope.version # Str(VERSION))
       => (local'.stage = "Failed" /\ result'.error.code = "UNSUPPORTED_VERSION")
  /\ local'.reads <= 1 /\ local'.scryptCalls <= 1 /\ local'.decipherCalls <= 1
  /\ local'.reads >= local.reads
  /\ local'.scryptCalls >= local.scryptCalls
  /\ local'.decipherCalls >= local.decipherCalls
  /\ call' = call

\* C12: decrypt call ordering. Every step of a decryptFile call moves from a
\* stage to the next one in the order Start, Deserialized, VersionChecked,
\* FieldsValidated, KeyDerived, Decrypted, or to Failed; the call ends exactly
\* when it reaches Decrypted (it returns) or Failed (it throws); the stage it
\* fails at fixes the error, so that an envelope of another version fails
\* with UNSUPPORTED_VERSION whatever fields it lacks; and the file is read,
\* the key derived and the cipher run at most once: nothing is retried.
C12_StageOrder ==
  [][(call.op = "decryptFile" /\ pc # "idle") => StageStep]_vars

\* decryptFile has failed with UNSUPPORTED_VERSION, straight from the stage
\* Deserialized, on an envelope of another version that also lacks a field
C12_Witness ==
  /\ Finished("decryptFile")
  /\ OtherVersion
  /\ \E f \in FieldNames : ~CalledFile.env[f].has
  /\ local.stage = "Failed"
  /\ local.reads = 1 /\ local.scryptCalls = 0
  /\ ThrewCode("UNSUPPORTED_VERSION")

\* C13: fresh salt and nonce. Every encryptFile call that returns has drawn
\* exactly two values from the random source during the call, a 12-byte nonce
\* and a 16-byte salt; the key is derived from the password and that salt,
\* the data is encrypted under that key and that nonce, and the envelope now
\* in '<path>.enc' records that salt and that nonce and the ciphertext and
\* tag they gave.
C13_FreshSaltAndNonce ==
  (Finished("encryptFile") /\ result.status = "returned")
    => /\ Len(local.drawn) = 2
       /\ Len(local.drawn[1]) = IV_LENGTH
       /\ Len(local.drawn[2]) = SALT_LENGTH
       /\ local.drawn[1] \in IvPool /\ local.drawn[2] \in SaltPool
       /\ local.key = scryptSync(call.password.chars, local.drawn[2])
       /\ local.ciphertext =
            encryptData(local.fileData, local.key, local.drawn[1]).ciphertext
       /\ local.authTag =
            encryptData(local.fileData, local.key, local.drawn[1]).authTag
       /\ fs[EncPath(call.filePath)].env =
            EnvelopeFor(local.fileData, call.password.chars,
                        local.drawn[2], local.drawn[1])
       /\ fromHex(fs[EncPath(call.filePath)].env.salt.s) = local.drawn[2]
       /\ fromHex(fs[EncPath(call.filePath)].env.iv.s) = local.drawn[1]

\* encryptFile has returned, having overwritten an envelope of an earlier
\* encryptFile call with one of another salt and another nonce
C13_Witness ==
  /\ Finished("encryptFile")
  /\ result.status = "returned"
  /\ \E salt \in SaltPool, iv \in IvPool :
       /\ fsAtCall[EncPath(call.filePath)].kind = "gzip"
       /\ fsAtCall[EncPath(call.filePath)].env.salt = Str(toHex(salt))
       /\ fsAtCall[EncPath(call.filePath)].env.iv = Str(toHex(iv))
       /\ salt # local.drawn[2]
       /\ iv # local.drawn[1]
  /\ fs[EncPath(call.filePath)].env.salt = Str(toHex(local.drawn[2]))

\* the file the call names holds an envelope of the supported version with
\* all four fields present whose salt decodes to other than SALT_LENGTH bytes
SaltOfOtherLength ==
  /\ HoldsEnvelope
  /\ CalledFile.env.version = Str(VERSION)
  /\ ~MissingFields(CalledFile.env)
  /\ Len(fromHex(CalledFile.env.salt.s)) # SALT_LENGTH

\* the codes an error of the invalid-input kind could carry
InvalidInputCodes == {"INVALID_INPUT", "INVALID_SALT", "INVALID_KEY", "INVALID_IV"}

\* C14: salt length contract. decryptFile (with a password that passes its
\* check) on an envelope whose stored salt decodes to a length other than 16
\* bytes derives no key from it and fails with an error of the invalid-input
\* kind.
C14_SaltLengthContract ==
  (call.op = "decryptFile" /\ MeetsPolicy(call.password) /\ SaltOfOtherLength)
    => /\ local.scryptCalls = 0
       /\ Finished("decryptFile") =>
            (result.status = "thrown" /\ result.error.code \in InvalidInputCodes)

\* an envelope with a salt of another length is never simply rejected by
\* decryptFile: a key is derived from the salt as it is
SaltOfOtherLengthIsUsed ==
  (Finished("decryptFile") /\ MeetsPolicy(call.password) /\ SaltOfOtherLength)
    => (local.scryptCalls = 1 /\ Len(local.salt) # SALT_LENGTH)

\* C15: the password check comes first on decrypt. For a password shorter
\* than MIN_PASSWORD_LENGTH, or one that is no string, decryptFile throws
\* WEAK_PASSWORD at its first statement, whatever is at the path: it reads no
\* file, derives no key and deciphers nothing.
C15_PasswordCheckFirst ==
  (call.op = "decryptFile" /\ ~MeetsPolicy(call.password))
    => /\ pc \in {"dec_assertPassword", "idle"}
       /\ local.reads = 0
       /\ local.scryptCalls = 0
       /\ local.decipherCalls = 0
       /\ local.stage \in {"Start", "Failed"}
       /\ pc = "idle" => ThrewCode("WEAK_PASSWORD")

\* decryptFile has thrown WEAK_PASSWORD for a password that is too short, on
\* a path at which there is no file
C15_Witness ==
  /\ Finished("decryptFile")
  /\ call.password.type = "string"
  /\ Len(call.password.chars) < MIN_PASSWORD_LENGTH
  /\ CalledFile.kind = "none"
  /\ local.reads = 0
  /\ ThrewCode("WEAK_PASSWORD")
====
